---- MODULE Spec2Model ----
(***************************************************************************)
(* Model of Hermod's API-interaction layer.                                *)
(*                                                                         *)
(*   src/lichess.py     Lichess.get / Lichess.post (two nested retry       *)
(*                      decorators), the three stream readers and the      *)
(*                      lifecycle operations                               *)
(*   src/matchmaker.py  Bot, Matchmaker._should_challenge and              *)
(*                      Matchmaker.challenge                               *)
(*                                                                         *)
(* The specifications share the variables: SpecCall (one lifecycle         *)
(* operation through the retry stack), SpecStream (one stream reader),     *)
(* SpecMatch (one matchmaking pass), SpecPass (a pass with its call of     *)
(* create_challenge), SpecTasks (calls of two tasks and an open stream)    *)
(* and SpecPasses (two passes on one Matchmaker).  Each leaves the other   *)
(* parts' state untouched.                                                 *)
(*                                                                         *)
(* Time is counted in ticks of 100 ms, the constant retry interval.        *)
(***************************************************************************)
EXTENDS Integers, Sequences, FiniteSets, TLC

VARIABLES
    \* ---- one lifecycle operation through Lichess.get / Lichess.post
    pc,         \* "idle" | "inflight" | "returned" | "raised"
    op,         \* the lifecycle operation in progress ("none" when idle)
    now,        \* ticks since the call began
    oTries,     \* on_exception: tries of the outer retry loop
    oElapsed,   \* on_exception: elapsed, read at the top of the outer loop
    iStart,     \* on_predicate: start of the current run of the inner loop
    iTries,     \* on_predicate: tries of the current run of the inner loop
    iElapsed,   \* on_predicate: elapsed, read at the top of the inner loop
    sSpent,     \* on_predicate: elapsed as it read it, summed over its runs
    requests,   \* requests handed to the transport in this call
    history,    \* what the transport answered, in order (see Answer, Failed)
    result,     \* what the operation returned ("none" until it returns)
    logged,     \* logger.error calls made by the operation itself
    \* ---- one stream reader
    reader,     \* "event" | "game" | "bots"
    sPc,        \* "connecting" | "streaming" | "ended"
    opens,      \* times the feed was opened (attempts)
    received,   \* lines read from the transport, over all connections
    yielded,    \* events handed to the consumer, in order
    sLogged,    \* logger.error calls made by the reader
    lastIo,     \* the last thing the transport did to the reader
    \* ---- one matchmaking pass
    mPc,        \* "start" | "fetched" | "challenging" | "done" | "failed"
    config,     \* CONFIG["matchmaking"]
    feed,       \* the roster feed: the lines /api/bot/online will give
    bots,       \* Matchmaker.challenge: bots, shuffled once _me is resolved
    me,         \* Matchmaker._me (NoBot for None)
    perfType,   \* the performance category resolved for this pass
    challenged, \* the bots create_challenge was called for, in order
    \* ---- calls of several tasks, passes of several tasks
    calls,      \* task -> its call through Lichess.get / Lichess.post
    passes      \* task -> its execution of Matchmaker.challenge

callVars   == <<pc, op, now, oTries, oElapsed, iStart, iTries, iElapsed,
                sSpent, requests, history, result, logged>>
streamVars == <<reader, sPc, opens, received, yielded, sLogged, lastIo>>
matchVars  == <<mPc, config, feed, bots, me, perfType, challenged>>
vars       == <<callVars, streamVars, matchVars, calls, passes>>

(***************************************************************************)
(* Bounds of the model.                                                    *)
(***************************************************************************)
MaxRequests == 4    \* requests followed within one call

(***************************************************************************)
(* Lichess.get / Lichess.post: the retry stack.                            *)
(***************************************************************************)
Interval         == 1      \* interval=0.1 s
TransportMaxTime == 600    \* on_exception max_time=60 s
ServerMaxTime    == 3000   \* on_predicate max_time=300 s

\* How long one request may take before the transport answers or fails.
Durations == {1, TransportMaxTime, ServerMaxTime}

Statuses == {200, 204, 404, 499, 500, 503}

\* Entries of history: a response with its status, or an httpx.RequestError.
Answer(status) == [kind |-> "response", status |-> status]
Failed         == [kind |-> "error", status |-> 0]

BoolOps == {"accept_challenge", "decline_challenge", "cancel_challenge",
            "abort_game", "resign_game", "make_move", "upgrade_account"}
GetOps  == {"get_open_challenges", "get_ongoing_games"}
Ops     == BoolOps \cup {"create_challenge"} \cup GetOps

\* The retry layer an operation goes through.
Method(o) == IF o \in GetOps THEN "get" ELSE "post"

RECURSIVE Pow2(_)
Pow2(n) == IF n = 0 THEN 1 ELSE 2 * Pow2(n - 1)

Min(a, b) == IF a <= b THEN a ELSE b

\* backoff.expo: 1 s, 2 s, 4 s, ... before the n-th retry (n = 1, 2, ...).
Expo(n) == 10 * Interval * Pow2(n - 1)

\* backoff.constant(interval=0.1).
Constant(n) == Interval

\* backoff.full_jitter: a delay drawn from [0, value].
FullJitter(value) == {0, value}

\* _next_wait: the jittered delay, never longer than what is left of max_time.
NextWait(value, elapsed, maxTime) ==
    {Min(s, maxTime - elapsed) : s \in FullJitter(value)}

\* Variant of Predicate: client errors taken for retryable ones.
PredicateFrom400(status) == status >= 400

\* lambda response: response.status_code >= 500
Predicate(status) == status >= 500

\* Variant of ServerGiveUp: the transport layer's budget used for both.
ServerGiveUpEarly(elapsed) == elapsed >= TransportMaxTime

\* Variant of ServerGiveUp: the budget compared with >.
ServerGiveUpStrict(elapsed) == elapsed > ServerMaxTime

\* on_predicate: max_time_exceeded
ServerGiveUp(elapsed) == elapsed >= ServerMaxTime

\* Variant of TransportGiveUp: on_exception without max_time.
TransportGiveUpNever(elapsed) == FALSE

\* on_exception: max_time_exceeded
TransportGiveUp(elapsed) == elapsed >= TransportMaxTime

\* What an operation returns for the response the retry stack hands it.
OpSuccess(o) ==
    IF o \in BoolOps THEN "True"
    ELSE IF o = "create_challenge" THEN "challenge-id"
    ELSE IF o = "get_open_challenges" THEN "challenges"
    ELSE "game-ids"

OpFailure(o) ==
    IF o \in BoolOps THEN "False"
    ELSE IF o = "create_challenge" THEN ""
    ELSE IF o = "get_open_challenges" THEN "{}"
    ELSE "[]"

OpResult(o, status) == IF status = 200 THEN OpSuccess(o) ELSE OpFailure(o)

\* A lifecycle operation is called: the outer loop starts, calls the inner
\* loop, which sends the first request.
Invoke(o) ==
    /\ pc = "idle"
    /\ pc' = "inflight"
    /\ op' = o
    /\ now' = 0
    /\ oTries' = 1
    /\ oElapsed' = 0
    /\ iStart' = 0
    /\ iTries' = 1
    /\ iElapsed' = 0
    /\ sSpent' = 0
    /\ requests' = 1
    /\ history' = <<>>
    /\ result' = "none"
    /\ logged' = 0

\* The response is handed back through both layers to the operation.
Return(status, t) ==
    /\ pc' = "returned"
    /\ now' = t
    /\ result' = OpResult(op, status)
    /\ logged' = IF status = 200 THEN logged ELSE logged + 1
    /\ UNCHANGED <<oTries, oElapsed, iStart, iTries, iElapsed, sSpent,
                   requests>>

\* on_predicate backs off and calls the target again.
ServerRetry(t) ==
    /\ requests < MaxRequests
    /\ \E seconds \in NextWait(Expo(iTries), iElapsed, ServerMaxTime) :
          /\ now' = t + seconds
          /\ iElapsed' = (t + seconds) - iStart
          /\ sSpent' = sSpent + ((t + seconds) - iStart) - iElapsed
    /\ iTries' = iTries + 1
    /\ requests' = requests + 1
    /\ pc' = "inflight"
    /\ UNCHANGED <<oTries, oElapsed, iStart, result, logged>>

\* The transport answers the request in flight after d ticks.
Response(status, d) ==
    /\ pc = "inflight"
    /\ history' = Append(history, Answer(status))
    /\ IF Predicate(status) /\ ~ServerGiveUp(iElapsed)
         THEN ServerRetry(now + d)
         ELSE Return(status, now + d)
    /\ UNCHANGED op

\* on_exception backs off and calls the target again: on_predicate's loop
\* starts afresh.
TransportRetry(t) ==
    /\ requests < MaxRequests
    /\ \E seconds \in NextWait(Constant(oTries), oElapsed, TransportMaxTime) :
          /\ now' = t + seconds
          /\ oElapsed' = t + seconds
          /\ iStart' = t + seconds
    /\ oTries' = oTries + 1
    /\ iTries' = 1
    /\ iElapsed' = 0
    /\ requests' = requests + 1
    /\ pc' = "inflight"
    /\ UNCHANGED <<sSpent, result, logged>>

\* on_exception gives up and re-raises; no operation catches it.
Raise(t) ==
    /\ pc' = "raised"
    /\ now' = t
    /\ UNCHANGED <<oTries, oElapsed, iStart, iTries, iElapsed, sSpent,
                   requests, result, logged>>

\* Variant of TransportError: elapsed read when the exception is caught.
TransportErrorAtRaise(d) ==
    /\ pc = "inflight"
    /\ history' = Append(history, Failed)
    /\ IF TransportGiveUp(now + d)
         THEN Raise(now + d)
         ELSE TransportRetry(now + d)
    /\ UNCHANGED op

\* The request in flight fails with httpx.RequestError after d ticks.
TransportError(d) ==
    /\ pc = "inflight"
    /\ history' = Append(history, Failed)
    /\ IF TransportGiveUp(oElapsed)
         THEN Raise(now + d)
         ELSE TransportRetry(now + d)
    /\ UNCHANGED op

(***************************************************************************)
(* The stream readers: watch_event_stream, watch_game_stream and           *)
(* get_online_bots.                                                        *)
(***************************************************************************)
MaxOpens == 3    \* times a reader is followed opening its feed
MaxLines == 3    \* lines followed on a feed, over all its connections

WatchReaders == {"event", "game"}
Readers      == WatchReaders \cup {"bots"}

\* A line is its characters.  Whitespace is what str.strip() removes.
Whitespace == {" ", "\t"}

Lines == { <<>>, <<" ">>, <<" ", "\t">>,
           <<"{", "}">>, <<" ", "[", "]", " ">>,
           <<"{">>, <<" ", "x">> }

\* The JSON documents among the texts of the model.
JsonDocs == { <<"{", "}">>, <<"[", "]">> }

RECURSIVE LStrip(_)
LStrip(line) ==
    IF line # <<>> /\ Head(line) \in Whitespace THEN LStrip(Tail(line))
    ELSE line

RECURSIVE RStrip(_)
RStrip(line) ==
    IF line # <<>> /\ line[Len(line)] \in Whitespace
    THEN RStrip(SubSeq(line, 1, Len(line) - 1))
    ELSE line

\* str.strip()
Strip(line) == RStrip(LStrip(line))

\* json.loads skips the whitespace around the document; it raises
\* JSONDecodeError on anything that is no document, the empty text included.
JsonLoads(line) ==
    IF Strip(line) \in JsonDocs
    THEN [ok |-> TRUE, value |-> [type |-> "json", doc |-> Strip(line)]]
    ELSE [ok |-> FALSE, value |-> [type |-> "error", doc |-> <<>>]]

Ping == [type |-> "ping", doc |-> <<>>]

\* Variant of IsHeartbeat: `if line:`, without the strip.
IsEmptyLine(line) == line = <<>>

\* `if line.strip():` is false
IsHeartbeat(line) == Strip(line) = <<>>

\* The body of `async for line in response.aiter_lines()`: the event the
\* reader makes of a line, or the exception it raises.
WatchLine(line) ==
    IF IsHeartbeat(line) THEN [ok |-> TRUE, value |-> Ping]
    ELSE JsonLoads(line)

BotsLine(line) == JsonLoads(line)

ReadLine(r, line) == IF r \in WatchReaders THEN WatchLine(line) ELSE BotsLine(line)

\* Variant of Yield: keep-alives swallowed instead of handed on.
YieldNoPing(ys, event) == IF event = Ping THEN ys ELSE Append(ys, event)

\* `yield event`
Yield(ys, event) == Append(ys, event)

\* Variants of AfterException: every reader stops, every reader reopens.
AfterExceptionStop(r) == "ended"

AfterExceptionReopen(r) == "connecting"

\* `except Exception as e: logger.error(e)`, then the `while True` of the
\* watch readers opens the feed again; get_online_bots has no loop.
AfterException(r) == IF r \in WatchReaders THEN "connecting" ELSE "ended"

\* Variant of AfterFeedEnd: the watch readers without their `return`.
AfterFeedEndReopen(r) == IF r \in WatchReaders THEN "connecting" ELSE "ended"

\* The feed ended without an error: `return` in the watch readers, the end
\* of the generator in get_online_bots.
AfterFeedEnd(r) == "ended"

\* An exception inside the try block.
Caught(what) ==
    /\ sLogged' = sLogged + 1
    /\ sPc' = AfterException(reader)
    /\ lastIo' = what

\* self.client.stream(...) fails to connect.
OpenConnectError ==
    /\ sPc = "connecting"
    /\ opens < MaxOpens
    /\ opens' = opens + 1
    /\ Caught("connect_error")
    /\ UNCHANGED <<reader, received, yielded>>

OpenStatuses == {200, 404, 503}

\* self.client.stream(...) gets a response; raise_for_status() lets it
\* through or raises HTTPStatusError.
OpenResponse(status) ==
    /\ sPc = "connecting"
    /\ opens < MaxOpens
    /\ opens' = opens + 1
    /\ IF status >= 400
         THEN Caught("status_error")
         ELSE /\ sPc' = "streaming"
              /\ lastIo' = "open"
              /\ UNCHANGED sLogged
    /\ UNCHANGED <<reader, received, yielded>>

\* aiter_lines() gives the next line.
Line(line) ==
    /\ sPc = "streaming"
    /\ Len(received) < MaxLines
    /\ received' = Append(received, line)
    /\ LET got == ReadLine(reader, line) IN
         IF got.ok
           THEN /\ yielded' = Yield(yielded, got.value)
                /\ lastIo' = "line"
                /\ UNCHANGED <<sPc, sLogged>>
           ELSE /\ Caught("decode_error")
                /\ UNCHANGED yielded
    /\ UNCHANGED <<reader, opens>>

\* aiter_lines() raises: the connection broke.
ReadError ==
    /\ sPc = "streaming"
    /\ Caught("read_error")
    /\ UNCHANGED <<reader, opens, received, yielded>>

\* aiter_lines() is exhausted: the server closed the feed.
FeedEnd ==
    /\ sPc = "streaming"
    /\ sPc' = AfterFeedEnd(reader)
    /\ lastIo' = "eof"
    /\ UNCHANGED <<reader, opens, received, yielded, sLogged>>

StreamInit ==
    /\ reader \in Readers
    /\ sPc = "connecting"
    /\ opens = 0
    /\ received = <<>>
    /\ yielded = <<>>
    /\ sLogged = 0
    /\ lastIo = "none"

(***************************************************************************)
(* Bot and Matchmaker.                                                     *)
(***************************************************************************)
MaxRoster == 3    \* entries get_online_bots yields in one pass

\* self._me = None
NoBot == [name |-> "", ratings |-> <<>>, games |-> <<>>]

\* self.li.username
Username == "me"

Names == {Username, "A", "B"}

\* Members of PerfType.
PerfTypes == {"blitz", "rapid"}

\* info["perfs"] of the roster entries of the model: categories that were
\* played, each with its rating and games.
Perfs == { [blitz |-> [rating |-> 1500, games |-> 50]],
           [blitz |-> [rating |-> 1600, games |-> 20]],
           [blitz |-> [rating |-> 2200, games |-> 100]],
           [blitz |-> [rating |-> 1700, games |-> 5],
            rapid |-> [rating |-> 1900, games |-> 5]] }

\* The lines of /api/bot/online, decoded.
Infos ==
    [username : Names, perfs : Perfs, disabled : {FALSE}]
    \cup { [username |-> Username, perfs |-> p, disabled |-> TRUE] :
             p \in {[blitz |-> [rating |-> 1500, games |-> 50]]} }

\* CONFIG["matchmaking"]
Configs ==
    { [enabled |-> TRUE,  max_rating_diff |-> 200, min_games |-> 10],
      [enabled |-> TRUE,  max_rating_diff |-> 100, min_games |-> 50],
      [enabled |-> FALSE, max_rating_diff |-> 200, min_games |-> 10] }

\* info["perfs"].get(perf_type.value, {}).get(key, default)
PerfGet(info, perf, key, default) ==
    IF perf \in DOMAIN info.perfs THEN info.perfs[perf][key] ELSE default

\* Bot.__init__
Bot(info) ==
    [name    |-> info.username,
     ratings |-> [p \in PerfTypes |-> PerfGet(info, p, "rating", 1500)],
     games   |-> [p \in PerfTypes |-> PerfGet(info, p, "games", 0)]]

RECURSIVE SumOver(_, _)
SumOver(f, S) ==
    IF S = {} THEN 0
    ELSE LET x == CHOOSE y \in S : TRUE IN f[x] + SumOver(f, S \ {x})

\* Bot.total_games
TotalGames(bot) == SumOver(bot.games, DOMAIN bot.games)

\* Bot.num_games
NumGames(bot, perf) == bot.games[perf]

\* Bot.rating
Rating(bot, perf) == bot.ratings[perf]

\* Variant of BotEq: equality of every field, as a generated __eq__ gives.
BotEqAllFields(a, b) == a = b

\* Bot.__eq__
BotEq(a, b) == a.name = b.name

Abs(x) == IF x < 0 THEN -x ELSE x

\* Variant of RatingTooFar: the difference taken without abs().
RatingTooFarSigned(bot, m, perf, cfg) ==
    Rating(bot, perf) - Rating(m, perf) > cfg.max_rating_diff

\* The rating condition of _should_challenge.
RatingTooFar(bot, m, perf, cfg) ==
    Abs(Rating(bot, perf) - Rating(m, perf)) > cfg.max_rating_diff

\* Variant of ShouldChallenge: the games of the resolved category only.
ShouldChallengePerfGames(m, bot, perf, cfg) ==
    IF BotEq(bot, m) THEN FALSE
    ELSE IF RatingTooFar(bot, m, perf, cfg) THEN FALSE
    ELSE IF NumGames(bot, perf) < cfg.min_games THEN FALSE
    ELSE TRUE

\* Variant of ShouldChallenge: the minimum of games not checked.
ShouldChallengeNoGames(m, bot, perf, cfg) ==
    IF BotEq(bot, m) THEN FALSE
    ELSE IF RatingTooFar(bot, m, perf, cfg) THEN FALSE
    ELSE TRUE

\* Matchmaker._should_challenge, with self._me = m and CONFIG = cfg.
ShouldChallenge(m, bot, perf, cfg) ==
    IF BotEq(bot, m) THEN FALSE
    ELSE IF RatingTooFar(bot, m, perf, cfg) THEN FALSE
    ELSE IF TotalGames(bot) < cfg.min_games THEN FALSE
    ELSE TRUE

RECURSIVE BotsOfAll(_)
\* Variant of BotsOf: the disabled entries kept.
BotsOfAll(infos) ==
    IF infos = <<>> THEN <<>>
    ELSE <<Bot(Head(infos))>> \o BotsOfAll(Tail(infos))

RECURSIVE BotsOf(_)
\* [Bot(info) async for info in get_online_bots() if not info.get("disabled")]
BotsOf(infos) ==
    IF infos = <<>> THEN <<>>
    ELSE (IF Head(infos).disabled THEN <<>> ELSE <<Bot(Head(infos))>>)
         \o BotsOf(Tail(infos))

\* The indices of the bots named like the authenticated account.
SelfAt(bs) == {i \in DOMAIN bs : bs[i].name = Username}

\* next(bot for bot in bots if bot.name == self.li.username)
FirstSelf(bs) == bs[CHOOSE i \in SelfAt(bs) : \A j \in SelfAt(bs) : i <= j]

\* random.shuffle(bots): any order of the same bots.
Shuffles(bs) ==
    { [i \in DOMAIN bs |-> bs[f[i]]] :
        f \in {g \in [DOMAIN bs -> DOMAIN bs] :
                 \A i, j \in DOMAIN bs : g[i] = g[j] => i = j} }

\* The indices the loop `for bot in bots` would challenge.
Eligible(m, bs, perf, cfg) ==
    {i \in DOMAIN bs : ShouldChallenge(m, bs[i], perf, cfg)}

\* `if not CONFIG["matchmaking"]["enabled"]: return`
PassDisabled ==
    /\ mPc = "start"
    /\ ~config.enabled
    /\ mPc' = "done"
    /\ UNCHANGED <<config, feed, bots, me, perfType, challenged>>

\* The roster is read and the bots are built.
PassFetch ==
    /\ mPc = "start"
    /\ config.enabled
    /\ bots' = BotsOf(feed)
    /\ mPc' = "fetched"
    /\ UNCHANGED <<config, feed, me, perfType, challenged>>

\* _me is resolved; without an entry of that name next() raises.
PassNoSelf ==
    /\ mPc = "fetched"
    /\ SelfAt(bots) = {}
    /\ mPc' = "failed"
    /\ UNCHANGED <<config, feed, bots, me, perfType, challenged>>

\* Variant of PassSelect: the loop without its `return`, every eligible
\* bot is challenged.
PassSelectAll ==
    /\ mPc = "fetched"
    /\ SelfAt(bots) # {}
    /\ me' = FirstSelf(bots)
    /\ \E order \in Shuffles(bots), perf \in PerfTypes :
          /\ bots' = order
          /\ perfType' = perf
          /\ LET hits == Eligible(me', order, perf, config) IN
               IF hits = {}
                 THEN /\ mPc' = "done"
                      /\ UNCHANGED challenged
                 ELSE /\ mPc' = "challenging"
                      /\ challenged' = challenged \o
                            SelectSeq(order, LAMBDA b :
                                ShouldChallenge(me', b, perf, config))
    /\ UNCHANGED <<config, feed>>

\* _me is resolved, the bots are shuffled, the time control and its
\* category are drawn, and the loop runs up to its first eligible bot:
\* create_challenge is called with it, or the loop ends with a warning.
PassSelect ==
    /\ mPc = "fetched"
    /\ SelfAt(bots) # {}
    /\ me' = FirstSelf(bots)
    /\ \E order \in Shuffles(bots), perf \in PerfTypes :
          /\ bots' = order
          /\ perfType' = perf
          /\ LET hits == Eligible(me', order, perf, config) IN
               IF hits = {}
                 THEN /\ mPc' = "done"
                      /\ UNCHANGED challenged
                 ELSE LET first == CHOOSE i \in hits : \A j \in hits : i <= j IN
                      /\ mPc' = "challenging"
                      /\ challenged' = Append(challenged, order[first])
    /\ UNCHANGED <<config, feed>>

\* create_challenge returns its id or "", and the pass returns.
PassCreated ==
    /\ mPc = "challenging"
    /\ mPc' = "done"
    /\ UNCHANGED <<config, feed, bots, me, perfType, challenged>>

MatchInit ==
    /\ mPc = "start"
    /\ config \in Configs
    /\ feed \in UNION {[1..n -> Infos] : n \in 0..MaxRoster}
    /\ bots = <<>>
    /\ me = NoBot
    /\ perfType = "none"
    /\ challenged = <<>>

(***************************************************************************)
(* Calls of several tasks through Lichess.get / Lichess.post.  The state   *)
(* of the two retry loops is local to each call; the calls share the       *)
(* httpx client only.                                                      *)
(***************************************************************************)
MaxTaskRequests == 2    \* requests followed within each concurrent call

Tasks == {1, 2}

\* The operations the tasks call: one through post, one through get.
TaskOps == {"make_move", "get_ongoing_games"}

\* What the platform answers to the tasks' requests, and how late.
TaskStatuses == {200, 503}
TaskDurations == {Interval, ServerMaxTime}

\* The draws of backoff.full_jitter, as the fraction of the value.
Jitters == {0, 1}

\* A task that has not called yet.
NoCall ==
    [pc |-> "idle", op |-> "none", now |-> 0, oTries |-> 0, oElapsed |-> 0,
     iStart |-> 0, iTries |-> 0, iElapsed |-> 0, layer |-> "none",
     wake |-> 0, requests |-> 0, result |-> "none", trace |-> <<>>]

\* What the transport and the jitter gave to one request of a call.
Input(kind, status, d, j) ==
    [kind |-> kind, status |-> status, d |-> d, jitter |-> j]

\* Variant of TriesOf: one counter of tries kept on the decorator, for
\* all calls.
TriesShared(cs, t) ==
    LET RECURSIVE Sum(_)
        Sum(S) == IF S = {} THEN 0
                  ELSE LET u == CHOOSE v \in S : TRUE
                       IN cs[u].iTries + Sum(S \ {u})
    IN Sum(Tasks)

\* `tries` of on_predicate's retry(): a local of the call.
TriesOf(cs, t) == cs[t].iTries

\* Task t calls an operation: both loops start, the first request is sent.
TaskInvoke(t, o) ==
    /\ calls[t].pc = "idle"
    /\ calls' = [calls EXCEPT ![t] =
                   [NoCall EXCEPT !.pc = "inflight", !.op = o, !.oTries = 1,
                                  !.iTries = 1, !.requests = 1]]

\* The transport answers the request of task t after d ticks: on_predicate
\* suspends the task for its backoff delay, or the operation returns.
TaskResponse(t, status, d, j) ==
    LET c == calls[t]
        entry == Input("response", status, d, j)
    IN  /\ c.pc = "inflight"
        /\ IF Predicate(status) /\ ~ServerGiveUp(c.iElapsed)
             THEN /\ c.requests < MaxTaskRequests
                  /\ calls' = [calls EXCEPT ![t] =
                       [c EXCEPT !.pc = "sleeping",
                                 !.layer = "server",
                                 !.now = c.now + d,
                                 !.wake = Min(j * Expo(TriesOf(calls, t)),
                                              ServerMaxTime - c.iElapsed),
                                 !.trace = Append(c.trace, entry)]]
             ELSE /\ j = 0
                  /\ calls' = [calls EXCEPT ![t] =
                       [c EXCEPT !.pc = "returned",
                                 !.now = c.now + d,
                                 !.result = OpResult(c.op, status),
                                 !.trace = Append(c.trace, entry)]]

\* The request of task t fails with httpx.RequestError after d ticks:
\* on_exception suspends the task for its delay, or re-raises.
TaskTransportError(t, d, j) ==
    LET c == calls[t]
        entry == Input("error", 0, d, j)
    IN  /\ c.pc = "inflight"
        /\ IF TransportGiveUp(c.oElapsed)
             THEN /\ j = 0
                  /\ calls' = [calls EXCEPT ![t] =
                       [c EXCEPT !.pc = "raised",
                                 !.now = c.now + d,
                                 !.trace = Append(c.trace, entry)]]
             ELSE /\ c.requests < MaxTaskRequests
                  /\ calls' = [calls EXCEPT ![t] =
                       [c EXCEPT !.pc = "sleeping",
                                 !.layer = "transport",
                                 !.now = c.now + d,
                                 !.wake = Min(j * Constant(c.oTries),
                                              TransportMaxTime - c.oElapsed),
                                 !.trace = Append(c.trace, entry)]]

\* asyncio.sleep(seconds) of task t is over: the layer that slept calls its
\* target again.
TaskWake(t) ==
    LET c == calls[t]
        at == c.now + c.wake
    IN  /\ c.pc = "sleeping"
        /\ calls' = [calls EXCEPT ![t] =
             IF c.layer = "server"
               THEN [c EXCEPT !.pc = "inflight", !.layer = "none",
                              !.now = at, !.wake = 0,
                              !.iElapsed = at - c.iStart,
                              !.iTries = c.iTries + 1,
                              !.requests = c.requests + 1]
               ELSE [c EXCEPT !.pc = "inflight", !.layer = "none",
                              !.now = at, !.wake = 0,
                              !.oElapsed = at,
                              !.oTries = c.oTries + 1,
                              !.iStart = at,
                              !.iTries = 1,
                              !.iElapsed = 0,
                              !.requests = c.requests + 1]]

(***************************************************************************)
(* Executions of Matchmaker.challenge by several tasks on one Matchmaker:  *)
(* bots and perf_type are locals of each execution, _me and CONFIG are     *)
(* shared.                                                                 *)
(***************************************************************************)
PassIds == {1, 2}

\* An execution that has not begun, with the roster it will be given.
NewPass(f) ==
    [pc |-> "start", feed |-> f, bots |-> <<>>, perfType |-> "none",
     challenged |-> <<>>]

\* `if not CONFIG["matchmaking"]["enabled"]: return`
EachDisabled(p) ==
    /\ passes[p].pc = "start"
    /\ ~config.enabled
    /\ passes' = [passes EXCEPT ![p].pc = "done"]
    /\ UNCHANGED <<config, me>>

\* The roster is read (the execution is suspended while it arrives) and
\* the bots are built.
EachFetch(p) ==
    /\ passes[p].pc = "start"
    /\ config.enabled
    /\ passes' = [passes EXCEPT ![p].pc = "fetched",
                                ![p].bots = BotsOf(passes[p].feed)]
    /\ UNCHANGED <<config, me>>

\* Without an entry of the account's name next() raises.
EachNoSelf(p) ==
    /\ passes[p].pc = "fetched"
    /\ SelfAt(passes[p].bots) = {}
    /\ passes' = [passes EXCEPT ![p].pc = "failed"]
    /\ UNCHANGED <<config, me>>

\* Variant of EachSelect: the loop checks the bots against _me as the
\* last execution left it.
EachSelectStale(p) ==
    LET c == passes[p] IN
    /\ c.pc = "fetched"
    /\ SelfAt(c.bots) # {}
    /\ me' = FirstSelf(c.bots)
    /\ \E order \in Shuffles(c.bots), perf \in PerfTypes :
          LET m == IF me = NoBot THEN me' ELSE me
              hits == Eligible(m, order, perf, config)
          IN  passes' = [passes EXCEPT ![p] =
                IF hits = {}
                  THEN [c EXCEPT !.pc = "done", !.bots = order,
                                 !.perfType = perf]
                  ELSE [c EXCEPT !.pc = "challenging", !.bots = order,
                                 !.perfType = perf,
                                 !.challenged = << order[
                                    CHOOSE i \in hits :
                                       \A k \in hits : i <= k] >>]]
    /\ UNCHANGED config

\* From `self._me = ...` to the call of create_challenge, or to the end of
\* the loop: no await in between.
EachSelect(p) ==
    LET c == passes[p] IN
    /\ c.pc = "fetched"
    /\ SelfAt(c.bots) # {}
    /\ me' = FirstSelf(c.bots)
    /\ \E order \in Shuffles(c.bots), perf \in PerfTypes :
          LET hits == Eligible(me', order, perf, config)
          IN  passes' = [passes EXCEPT ![p] =
                IF hits = {}
                  THEN [c EXCEPT !.pc = "done", !.bots = order,
                                 !.perfType = perf]
                  ELSE [c EXCEPT !.pc = "challenging", !.bots = order,
                                 !.perfType = perf,
                                 !.challenged = << order[
                                    CHOOSE i \in hits :
                                       \A k \in hits : i <= k] >>]]
    /\ UNCHANGED config

\* create_challenge is over (the execution was suspended in it): `return`.
EachCreated(p) ==
    /\ passes[p].pc = "challenging"
    /\ passes' = [passes EXCEPT ![p].pc = "done"]
    /\ UNCHANGED <<config, me>>

(***************************************************************************)
(* Placeholders for the parts a specification does not run.                *)
(***************************************************************************)
CallIdle ==
    /\ pc = "idle"
    /\ op = "none"
    /\ now = 0
    /\ oTries = 0
    /\ oElapsed = 0
    /\ iStart = 0
    /\ iTries = 0
    /\ iElapsed = 0
    /\ sSpent = 0
    /\ requests = 0
    /\ history = <<>>
    /\ result = "none"
    /\ logged = 0

StreamIdle ==
    /\ reader = "event"
    /\ sPc = "ended"
    /\ opens = 0
    /\ received = <<>>
    /\ yielded = <<>>
    /\ sLogged = 0
    /\ lastIo = "none"

MatchIdle ==
    /\ mPc = "done"
    /\ config = [enabled |-> FALSE, max_rating_diff |-> 0, min_games |-> 0]
    /\ feed = <<>>
    /\ bots = <<>>
    /\ me = NoBot
    /\ perfType = "none"
    /\ challenged = <<>>

TasksIdle == calls = [t \in Tasks |-> NoCall]

PassesIdle == passes = [p \in PassIds |-> [NewPass(<<>>) EXCEPT !.pc = "done"]]

(***************************************************************************)
(* SpecCall: one lifecycle operation.                                      *)
(***************************************************************************)
InitCall == CallIdle /\ StreamIdle /\ MatchIdle /\ TasksIdle /\ PassesIdle

DoInvoke ==
    /\ \E o \in Ops : Invoke(o)
    /\ UNCHANGED <<streamVars, matchVars, calls, passes>>

DoResponse ==
    /\ \E s \in Statuses, d \in Durations : Response(s, d)
    /\ UNCHANGED <<streamVars, matchVars, calls, passes>>

DoTransportError ==
    /\ \E d \in Durations : TransportError(d)
    /\ UNCHANGED <<streamVars, matchVars, calls, passes>>

NextCall == DoInvoke \/ DoResponse \/ DoTransportError

SpecCall == InitCall /\ [][NextCall]_vars

(***************************************************************************)
(* SpecStream: one stream reader and its transport.                        *)
(***************************************************************************)
InitStream == StreamInit /\ CallIdle /\ MatchIdle /\ TasksIdle /\ PassesIdle

DoOpenConnectError == OpenConnectError /\ UNCHANGED <<callVars, matchVars, calls, passes>>

DoOpenResponse ==
    /\ \E s \in OpenStatuses : OpenResponse(s)
    /\ UNCHANGED <<callVars, matchVars, calls, passes>>

DoLine ==
    /\ \E l \in Lines : Line(l)
    /\ UNCHANGED <<callVars, matchVars, calls, passes>>

DoReadError == ReadError /\ UNCHANGED <<callVars, matchVars, calls, passes>>

DoFeedEnd == FeedEnd /\ UNCHANGED <<callVars, matchVars, calls, passes>>

NextStream ==
    DoOpenConnectError \/ DoOpenResponse \/ DoLine \/ DoReadError \/ DoFeedEnd

SpecStream == InitStream /\ [][NextStream]_vars

(***************************************************************************)
(* SpecMatch: one matchmaking pass.                                        *)
(***************************************************************************)
InitMatch == MatchInit /\ CallIdle /\ StreamIdle /\ TasksIdle /\ PassesIdle

DoPassDisabled == PassDisabled /\ UNCHANGED <<callVars, streamVars, calls, passes>>

DoPassFetch == PassFetch /\ UNCHANGED <<callVars, streamVars, calls, passes>>

DoPassNoSelf == PassNoSelf /\ UNCHANGED <<callVars, streamVars, calls, passes>>

DoPassSelect == PassSelect /\ UNCHANGED <<callVars, streamVars, calls, passes>>

DoPassCreated == PassCreated /\ UNCHANGED <<callVars, streamVars, calls, passes>>

NextMatch ==
    DoPassDisabled \/ DoPassFetch \/ DoPassNoSelf \/ DoPassSelect \/ DoPassCreated

SpecMatch == InitMatch /\ [][NextMatch]_vars

(***************************************************************************)
(* SpecPass: one matchmaking pass with the call of create_challenge.       *)
(***************************************************************************)
\* A roster entry that played blitz only.
Entry(name, rating, games) ==
    [username |-> name, disabled |-> FALSE,
     perfs |-> [blitz |-> [rating |-> rating, games |-> games]]]

\* The rosters get_online_bots yields in the passes of this specification.
PassFeeds ==
    { << Entry(Username, 1500, 50), Entry("A", 1600, 20),
         Entry("B", 2200, 100) >>,
      << Entry(Username, 1500, 50), Entry("A", 1600, 20),
         Entry("B", 1500, 50) >>,
      << Entry("A", 1600, 20), Entry("B", 2200, 100) >>,
      << >> }

\* The answers of the platform to POST /api/challenge/{name}.
CreateStatuses == {200, 404, 503}
CreateDurations == {Interval, TransportMaxTime}

\* `await self.li.create_challenge(...)`: the operation is called.
CreateInvoke ==
    /\ mPc = "challenging"
    /\ Invoke("create_challenge")
    /\ UNCHANGED matchVars

\* create_challenge returned its id or "": `return`.
CreateReturned ==
    /\ mPc = "challenging"
    /\ pc = "returned"
    /\ mPc' = "done"
    /\ UNCHANGED <<config, feed, bots, me, perfType, challenged>>
    /\ UNCHANGED callVars

\* create_challenge raised: the exception leaves challenge().
CreateRaised ==
    /\ mPc = "challenging"
    /\ pc = "raised"
    /\ mPc' = "failed"
    /\ UNCHANGED <<config, feed, bots, me, perfType, challenged>>
    /\ UNCHANGED callVars

InitPass ==
    /\ mPc = "start"
    /\ config \in Configs
    /\ feed \in PassFeeds
    /\ bots = <<>>
    /\ me = NoBot
    /\ perfType = "none"
    /\ challenged = <<>>
    /\ CallIdle
    /\ StreamIdle
    /\ TasksIdle
    /\ PassesIdle

DoCreateInvoke == CreateInvoke /\ UNCHANGED <<streamVars, calls, passes>>

DoCreateResponse ==
    /\ \E s \in CreateStatuses, d \in CreateDurations : Response(s, d)
    /\ UNCHANGED <<streamVars, matchVars, calls, passes>>

DoCreateTransportError ==
    /\ \E d \in CreateDurations : TransportError(d)
    /\ UNCHANGED <<streamVars, matchVars, calls, passes>>

DoCreateReturned == CreateReturned /\ UNCHANGED <<streamVars, calls, passes>>

DoCreateRaised == CreateRaised /\ UNCHANGED <<streamVars, calls, passes>>

NextPass ==
    \/ DoPassDisabled
    \/ DoPassFetch
    \/ DoPassNoSelf
    \/ DoPassSelect
    \/ DoCreateInvoke
    \/ DoCreateResponse
    \/ DoCreateTransportError
    \/ DoCreateReturned
    \/ DoCreateRaised

SpecPass == InitPass /\ [][NextPass]_vars

(***************************************************************************)
(* SpecTasks: two tasks call operations while the event stream is read.    *)
(***************************************************************************)
\* The lines the open stream delivers meanwhile: events.
TaskLines == { <<"{", "}">> }

InitTasks ==
    /\ TasksIdle
    /\ StreamInit
    /\ reader = "event"
    /\ CallIdle
    /\ MatchIdle
    /\ PassesIdle

DoTaskInvoke ==
    /\ \E t \in Tasks, o \in TaskOps : TaskInvoke(t, o)
    /\ UNCHANGED <<callVars, streamVars, matchVars, passes>>

DoTaskResponse ==
    /\ \E t \in Tasks, s \in TaskStatuses, d \in TaskDurations, j \in Jitters :
          TaskResponse(t, s, d, j)
    /\ UNCHANGED <<callVars, streamVars, matchVars, passes>>

DoTaskTransportError ==
    /\ \E t \in Tasks, d \in TaskDurations, j \in Jitters :
          TaskTransportError(t, d, j)
    /\ UNCHANGED <<callVars, streamVars, matchVars, passes>>

DoTaskWake ==
    /\ \E t \in Tasks : TaskWake(t)
    /\ UNCHANGED <<callVars, streamVars, matchVars, passes>>

DoTaskStreamOpen ==
    /\ OpenResponse(200)
    /\ UNCHANGED <<callVars, matchVars, calls, passes>>

DoTaskStreamLine ==
    /\ \E l \in TaskLines : Line(l)
    /\ UNCHANGED <<callVars, matchVars, calls, passes>>

NextTasks ==
    \/ DoTaskInvoke
    \/ DoTaskResponse
    \/ DoTaskTransportError
    \/ DoTaskWake
    \/ DoTaskStreamOpen
    \/ DoTaskStreamLine

SpecTasks == InitTasks /\ [][NextTasks]_vars

(***************************************************************************)
(* SpecPasses: two executions of Matchmaker.challenge on one Matchmaker.   *)
(***************************************************************************)
\* The rosters of the executions: the account's rating differs between
\* them.
EachFeeds ==
    { << Entry(Username, 1500, 50), Entry("A", 1600, 20),
         Entry("B", 2200, 100) >>,
      << Entry("A", 1600, 20), Entry(Username, 2100, 60),
         Entry("B", 2200, 100) >>,
      << Entry("A", 1600, 20), Entry("B", 2200, 100) >> }

InitPasses ==
    /\ passes \in [PassIds -> {NewPass(f) : f \in EachFeeds}]
    /\ config \in Configs
    /\ me = NoBot
    /\ mPc = "done"
    /\ feed = <<>>
    /\ bots = <<>>
    /\ perfType = "none"
    /\ challenged = <<>>
    /\ CallIdle
    /\ StreamIdle
    /\ TasksIdle

DoEachDisabled ==
    /\ \E p \in PassIds : EachDisabled(p)
    /\ UNCHANGED <<callVars, streamVars, calls>>
    /\ UNCHANGED <<mPc, feed, bots, perfType, challenged>>

DoEachFetch ==
    /\ \E p \in PassIds : EachFetch(p)
    /\ UNCHANGED <<callVars, streamVars, calls>>
    /\ UNCHANGED <<mPc, feed, bots, perfType, challenged>>

DoEachNoSelf ==
    /\ \E p \in PassIds : EachNoSelf(p)
    /\ UNCHANGED <<callVars, streamVars, calls>>
    /\ UNCHANGED <<mPc, feed, bots, perfType, challenged>>

DoEachSelect ==
    /\ \E p \in PassIds : EachSelect(p)
    /\ UNCHANGED <<callVars, streamVars, calls>>
    /\ UNCHANGED <<mPc, feed, bots, perfType, challenged>>

DoEachCreated ==
    /\ \E p \in PassIds : EachCreated(p)
    /\ UNCHANGED <<callVars, streamVars, calls>>
    /\ UNCHANGED <<mPc, feed, bots, perfType, challenged>>

NextPasses ==
    \/ DoEachDisabled
    \/ DoEachFetch
    \/ DoEachNoSelf
    \/ DoEachSelect
    \/ DoEachCreated

SpecPasses == InitPasses /\ [][NextPasses]_vars

(***************************************************************************)
(* Properties of the retry stack and the lifecycle operations (SpecCall).  *)
(***************************************************************************)
Last(seq) == seq[Len(seq)]

IsClientError(h) == h.kind = "response" /\ h.status >= 400 /\ h.status < 500
IsServerError(h) == h.kind = "response" /\ h.status >= 500

\* C1 (as claimed): no lifecycle operation ever raises to its caller,
\* whatever transport errors and responses the server produces.
C1_NeverRaises == pc # "raised"

\* C2: a response with status in [400,500) is the last thing of its call: no
\* request follows it, and the operation returns its failure value at once.
C2_ClientErrorTerminal ==
    \A k \in DOMAIN history :
        IsClientError(history[k]) =>
            /\ k = Len(history)
            /\ requests = k
            /\ pc = "returned"
            /\ result = OpFailure(op)
            /\ logged = 1

\* C2 witness: a client error answered a retried request.
C2_Witness ==
    /\ Len(history) >= 2
    /\ IsClientError(Last(history))
    /\ pc = "returned"

\* C3: a response with status >= 500 is followed by another request, unless
\* the call gives up on it, and it gives up on one only after at least one
\* retry and with the 300 s budget of the server-error layer spent.
C3_ServerErrorRetried ==
    \A k \in DOMAIN history :
        IsServerError(history[k]) =>
            \/ requests > k
            \/ /\ k = Len(history)
               /\ k >= 2
               /\ pc = "returned"
               /\ result = OpFailure(op)
               /\ iElapsed >= ServerMaxTime
               /\ now - iStart >= ServerMaxTime

\* C3 witness: the call gave up on a server error.
C3_Witness ==
    /\ pc = "returned"
    /\ history # <<>>
    /\ IsServerError(Last(history))

(***************************************************************************)
(* Properties of the stream readers (SpecStream).                          *)
(***************************************************************************)
Failures == {"connect_error", "status_error", "read_error", "decode_error"}

\* A line of nothing but whitespace.
IsBlank(line) == \A i \in DOMAIN line : line[i] \in Whitespace

RECURSIVE Count(_, _)
Count(seq, x) ==
    IF seq = <<>> THEN 0
    ELSE (IF Head(seq) = x THEN 1 ELSE 0) + Count(Tail(seq), x)

RECURSIVE CountBlank(_)
CountBlank(seq) ==
    IF seq = <<>> THEN 0
    ELSE (IF IsBlank(Head(seq)) THEN 1 ELSE 0) + CountBlank(Tail(seq))

\* One ping per blank line received, and no decode error on a blank line.
BlankLinesArePings ==
    /\ Count(yielded, Ping) = CountBlank(received)
    /\ lastIo = "decode_error" => ~IsBlank(Last(received))

\* C4 (as claimed): on every reader, get_online_bots included, a blank line
\* yields exactly one ping and no decode error.
C4_BlankIsPingEverywhere == BlankLinesArePings

\* C4 (amended): on watch_event_stream and watch_game_stream a blank line
\* yields exactly one ping and no decode error; get_online_bots decodes
\* every line, so a blank line there is a decode error that yields nothing
\* and ends the roster.
C4_BlankIsPing ==
    /\ reader \in WatchReaders => BlankLinesArePings
    /\ reader = "bots" =>
          /\ Count(yielded, Ping) = 0
          /\ (received # <<>> /\ IsBlank(Last(received))) =>
                (lastIo = "decode_error" /\ sPc = "ended")

\* C4 witness: a watch reader has turned a whitespace-only line into a ping.
C4_Witness ==
    /\ reader \in WatchReaders
    /\ lastIo = "line"
    /\ Last(received) = <<" ", "\t">>
    /\ Last(yielded) = Ping

\* C5: any failure of a watch reader (connection error or error status on
\* open, read error, undecodable line) is logged once and leaves the reader
\* connecting, the consumer's sequence untouched and not ended.
C5_FailureReconnects ==
    [][ (reader \in WatchReaders /\ lastIo' \in Failures) =>
            /\ sPc' = "connecting"
            /\ sLogged' = sLogged + 1
            /\ yielded' = yielded ]_vars

\* C5 witness: a watch reader that had yielded events is reopening its feed
\* for the last time the model follows, after an undecodable line.
C5_Witness ==
    /\ reader \in WatchReaders
    /\ lastIo = "decode_error"
    /\ sPc = "connecting"
    /\ opens = MaxOpens - 1
    /\ yielded # <<>>

\* C6 (as claimed): the sequence of a watch reader never ends.
C6_NeverEnds == reader \in WatchReaders => sPc # "ended"

\* C6 (amended): the sequence of a watch reader ends exactly when the server
\* closes an open feed without error; no failure ends it.
C6_EndsOnlyOnCleanClose ==
    reader \in WatchReaders => (sPc = "ended" <=> lastIo = "eof")

\* C6 witness: a watch reader ended on a clean close after a reconnect.
C6_Witness ==
    /\ reader \in WatchReaders
    /\ sPc = "ended"
    /\ opens >= 2

\* The events a watch reader owes for the lines it read: a ping for a blank
\* line, the document for a JSON line, nothing for a line it fails on.
RECURSIVE WatchEvents(_)
WatchEvents(seq) ==
    IF seq = <<>> THEN <<>>
    ELSE LET l == Head(seq) IN
         (IF IsBlank(l) THEN <<Ping>>
          ELSE IF Strip(l) \in JsonDocs
                 THEN <<[type |-> "json", doc |-> Strip(l)]>>
                 ELSE <<>>)
         \o WatchEvents(Tail(seq))

\* C7: a watch reader hands on one event per line it read, in the order of
\* the lines, none skipped and none twice, across reconnects; a line that
\* fails to decode yields nothing.
C7_InOrder ==
    reader \in WatchReaders =>
        yielded = WatchEvents(received)

\* C7 witness: events from two connections around an undecodable line.
C7_Witness ==
    /\ reader \in WatchReaders
    /\ Len(received) = 3
    /\ Len(yielded) = 2
    /\ yielded[1] = Ping
    /\ received[2] = <<"{">>
    /\ opens >= 2

\* The events get_online_bots owes: the document of every JSON line.
RECURSIVE BotEvents(_)
BotEvents(seq) ==
    IF seq = <<>> THEN <<>>
    ELSE (IF Strip(Head(seq)) \in JsonDocs
            THEN <<[type |-> "json", doc |-> Strip(Head(seq))]>>
            ELSE <<>>)
         \o BotEvents(Tail(seq))

C9_NeverChallengesSelf ==
    \A k \in DOMAIN challenged : challenged[k].name # Username

\* C9 witness: a challenge went out although the roster held two enabled
\* entries of the account's name with different ratings.
C9_Witness ==
    /\ challenged # <<>>
    /\ \E i, j \in DOMAIN bots :
          /\ i # j
          /\ bots[i].name = Username
          /\ bots[j].name = Username
          /\ bots[i] # bots[j]

\* C10: a challenged candidate is within max_rating_diff of self in the
\* resolved category and has at least min_games games over all categories.
C10_OnlyEligible ==
    \A k \in DOMAIN challenged :
        LET c == challenged[k]
            d == c.ratings[perfType] - me.ratings[perfType]
        IN /\ d <= config.max_rating_diff
           /\ -d <= config.max_rating_diff
           /\ c.games["blitz"] + c.games["rapid"] >= config.min_games

\* C10 witness: a candidate was challenged at exactly the allowed rating
\* difference and with exactly the required games, played in two categories.
C10_Witness ==
    /\ challenged # <<>>
    /\ challenged[1].ratings[perfType] - me.ratings[perfType]
          = config.max_rating_diff
    /\ challenged[1].games["blitz"] + challenged[1].games["rapid"]
          = config.min_games
    /\ challenged[1].games["rapid"] > 0

\* The bots of the pass that are not named like the account and meet both
\* conditions against self in the resolved category.
Qualifying ==
    {i \in DOMAIN bots :
        LET d == bots[i].ratings[perfType] - me.ratings[perfType] IN
        /\ bots[i].name # Username
        /\ d <= config.max_rating_diff
        /\ -d <= config.max_rating_diff
        /\ bots[i].games["blitz"] + bots[i].games["rapid"] >= config.min_games}

\* The pass has resolved self and run its loop.
Selected == mPc \in {"challenging", "done"} /\ me # NoBot

\* The roster of the end-to-end scenario: self(1500, 50 games),
\* A(1600, 20 games), B(2200, 100 games), ratings and games in blitz.
ScenarioFeed ==
    << [username |-> Username, disabled |-> FALSE,
        perfs |-> [blitz |-> [rating |-> 1500, games |-> 50]]],
       [username |-> "A", disabled |-> FALSE,
        perfs |-> [blitz |-> [rating |-> 1600, games |-> 20]]],
       [username |-> "B", disabled |-> FALSE,
        perfs |-> [blitz |-> [rating |-> 2200, games |-> 100]]] >>

Scenario ==
    /\ feed = ScenarioFeed
    /\ config = [enabled |-> TRUE, max_rating_diff |-> 200, min_games |-> 10]
    /\ perfType = "blitz"

\* C11: when some entry other than self qualifies, exactly one challenge is
\* issued, to the first qualifying entry of the shuffled order; in the
\* scenario it goes to A under every shuffle.
C11_FirstQualifying ==
    Selected =>
        /\ Qualifying # {} =>
              \E i \in Qualifying :
                  /\ \A j \in Qualifying : i <= j
                  /\ challenged = <<bots[i]>>
        /\ Scenario => (Len(challenged) = 1 /\ challenged[1].name = "A")

\* C11 witness: the scenario, shuffled so that B comes before A.
C11_Witness ==
    /\ Selected
    /\ Scenario
    /\ bots[1].name = "B"
    /\ challenged # <<>>

\* C12: when no entry qualifies, the roster of self alone included, no
\* challenge is sent and the pass returns normally.
C12_NoneQualifies ==
    (mPc \in {"challenging", "done", "failed"} /\ me # NoBot /\ Qualifying = {})
        => (mPc = "done" /\ challenged = <<>>)

\* C12 witness: a pass over a roster of self alone has returned.
C12_Witness ==
    /\ mPc = "done"
    /\ me # NoBot
    /\ Len(feed) = 1
    /\ challenged = <<>>

\* The entries of the feed that carry the account's name and are not
\* flagged disabled.
EnabledSelf ==
    {i \in DOMAIN feed : feed[i].username = Username /\ ~feed[i].disabled}

\* C17: self is the first entry read from the roster that carries the
\* account's name and is not disabled; without one the pass fails with an
\* error and sends no challenge.
C17_SelfOrFail ==
    /\ mPc \in {"start", "fetched"} => (challenged = <<>> /\ me = NoBot)
    /\ (config.enabled /\ mPc \notin {"start", "fetched"}) =>
          IF EnabledSelf = {}
            THEN mPc = "failed" /\ challenged = <<>> /\ me = NoBot
            ELSE /\ mPc # "failed"
                 /\ \E i \in EnabledSelf :
                       /\ \A j \in EnabledSelf : i <= j
                       /\ me.name = Username
                       /\ me.ratings["blitz"] = feed[i].perfs.blitz.rating
                       /\ me.games["blitz"] = feed[i].perfs.blitz.games

\* C17 witness: the pass failed on a roster whose only entry of the
\* account's name is flagged disabled.
C17_Witness ==
    /\ mPc = "failed"
    /\ Len(feed) >= 2
    /\ \E i \in DOMAIN feed : feed[i].username = Username /\ feed[i].disabled

(***************************************************************************)
(* Further properties of the retry stack (SpecCall).                       *)
(***************************************************************************)
\* The step takes an answer of the transport: a response, or an error.
GotResponse == Len(history') = Len(history) + 1 /\ Last(history').kind = "response"
GotError    == Len(history') = Len(history) + 1 /\ Last(history').kind = "error"

\* C14 (as claimed): an operation that ended reports success exactly when
\* the final response had status 200, and its failure value (False, an
\* empty id, an empty collection) in every other case.
C14_SuccessIff200 ==
    pc \in {"returned", "raised"} =>
        result = IF Last(history).kind = "response" /\ Last(history).status = 200
                   THEN OpSuccess(op)
                   ELSE OpFailure(op)

\* What is left of the two budgets, as the layers read them.
RankO == IF oElapsed < TransportMaxTime THEN TransportMaxTime - oElapsed ELSE 0
RankI == IF iElapsed < ServerMaxTime THEN ServerMaxTime - iElapsed ELSE 0

\* C15: every answer either ends the call or is followed by one more
\* request with strictly less left of the budgets, in the order (transport
\* budget, server budget): a call sends finitely many requests.
C15_Terminates ==
    [][ pc = "inflight" =>
          \/ pc' \in {"returned", "raised"}
          \/ /\ pc' = "inflight"
             /\ requests' = requests + 1
             /\ now' > now
             /\ \/ RankO' < RankO
                \/ RankO' = RankO /\ RankI' < RankI ]_vars

\* C15 witness: a call ended after answers that were all transport errors
\* and server errors.
C15_Witness ==
    /\ pc \in {"returned", "raised"}
    /\ requests >= 3
    /\ \A k \in DOMAIN history :
          history[k].kind = "error" \/ IsServerError(history[k])

\* A >=500 response was retried in this step.
ServerRetried == pc = "inflight" /\ pc' = "inflight" /\ GotResponse

\* A transport error was retried in this step.
TransportRetried == pc = "inflight" /\ pc' = "inflight" /\ GotError

\* C16 (as claimed): once the server-error layer has spent 300 s in this
\* call, over all its runs, no >=500 response is retried any more.
C16_TotalBudget == [][ ServerRetried => sSpent < ServerMaxTime ]_vars

\* C16 (amended): within one run of the server-error layer a >=500
\* response is retried only while the run has read less than 300 s; a
\* transport error that is retried starts a new run with a fresh budget.
C16_BudgetPerRun ==
    [][ /\ ServerRetried =>
              /\ iElapsed < ServerMaxTime
              /\ iStart' = iStart
              /\ iElapsed' = now' - iStart
              /\ sSpent' - sSpent = iElapsed' - iElapsed
        /\ TransportRetried =>
              /\ iStart' = now'
              /\ iElapsed' = 0
              /\ sSpent' = sSpent ]_vars

\* C16 witness: a >=500 response has just been retried in a run that
\* followed runs which had spent 300 s or more.
C16_Witness ==
    /\ pc = "inflight"
    /\ Len(history) >= 3
    /\ IsServerError(Last(history))
    /\ oTries >= 2
    /\ sSpent - iElapsed >= ServerMaxTime

\* C19 (as claimed): a transport error raised 60 s or more into the call
\* ends it, and one raised earlier is retried after the constant delay.
C19_FromCallStart ==
    [][ GotError =>
          /\ pc' = "inflight" => now' - Interval < TransportMaxTime
          /\ pc' = "raised" => now' >= TransportMaxTime ]_vars

\* C19 (amended): the 60 s run from the start of the call, and they are
\* read when an attempt of the transport layer begins: a transport error
\* ends the call when 60 s or more had passed at the beginning of the
\* attempt it occurs in, and is retried otherwise.
C19_FromAttemptStart ==
    [][ /\ GotError =>
              /\ pc' = "raised" <=> oElapsed >= TransportMaxTime
              /\ pc' = "inflight" <=> oElapsed < TransportMaxTime
              /\ pc' = "inflight" => (oElapsed' = now' /\ oTries' = oTries + 1)
        /\ (pc = "inflight" /\ ~GotError) =>
              (oElapsed' = oElapsed /\ oTries' = oTries)
        /\ pc = "idle" => (oElapsed' = 0 /\ now' = 0) ]_vars

\* C19 witness: a transport error raised 300 s or more into the call,
\* after a >=500 response, has been retried.
C19_Witness ==
    /\ pc = "inflight"
    /\ Len(history) = 2
    /\ Last(history).kind = "error"
    /\ IsServerError(history[1])
    /\ oTries = 2
    /\ now >= ServerMaxTime

(***************************************************************************)
(* Properties of a pass with its call of create_challenge (SpecPass).      *)
(***************************************************************************)
\* C13 (as claimed): at most one challenge-creation request reaches the
\* platform in a pass, retries of the Action Client included.
C13_OneRequest == requests <= 1

\* C13 (amended): a pass calls create_challenge for at most one candidate
\* and at most once, and stops when the call has ended, whatever its
\* outcome; the requests that call sends are not limited to one.
C13_OneCandidate ==
    /\ [](Len(challenged) <= 1)
    /\ [](pc # "idle" => (op = "create_challenge" /\ Len(challenged) = 1))
    /\ [](mPc \in {"done", "failed"} => pc \in {"idle", "returned", "raised"})
    /\ [][ /\ pc' = "idle" => pc = "idle"
           /\ mPc \notin {"done", "failed"}
           /\ challenged' # challenged => challenged = <<>> ]_vars

\* C13 witness: the pass has stopped after a creation that was retried and
\* failed, with a second eligible candidate left unchallenged.
C13_Witness ==
    /\ mPc = "done"
    /\ pc = "returned"
    /\ requests >= 2
    /\ result = ""
    /\ Len(challenged) = 1
    /\ Cardinality(Eligible(me, bots, perfType, config)) >= 2

(***************************************************************************)
(* Properties of concurrent calls (SpecTasks).                             *)
(***************************************************************************)
\* C18: two calls that are at the same point after the same answers to
\* their own requests (statuses, errors, durations, jitter draws) have made
\* the same number of attempts at the same times and have the same
\* outcome, whatever the other call and the stream did meanwhile; a step
\* of one call changes nothing of the other call nor of the stream.
C18_Independent ==
    /\ [](\A t, u \in Tasks :
            (calls[t].pc = calls[u].pc /\ calls[t].trace = calls[u].trace) =>
               /\ [calls[t] EXCEPT !.op = "", !.result = ""]
                    = [calls[u] EXCEPT !.op = "", !.result = ""]
               /\ calls[t].op = calls[u].op =>
                     calls[t].result = calls[u].result)
    /\ [][ /\ \A t, u \in Tasks :
                (calls'[t] # calls[t] /\ u # t) => calls'[u] = calls[u]
           /\ calls' # calls => UNCHANGED streamVars
           /\ streamVars' # streamVars => calls' = calls ]_vars

\* C18 witness: while the stream is open and delivering, call 1 has
\* returned after a retry and call 2 is suspended in the backoff that
\* followed the same first answer.
C18_Witness ==
    /\ sPc = "streaming"
    /\ received # <<>>
    /\ calls[1].pc = "returned"
    /\ calls[1].requests = 2
    /\ calls[2].pc = "sleeping"
    /\ calls[2].trace = <<calls[1].trace[1]>>
    /\ calls[2].wake > 0

(***************************************************************************)
(* Properties of interleaved passes (SpecPasses).                          *)
(***************************************************************************)
\* The execution has run its loop.
Looped(p) ==
    passes[p].pc \in {"challenging", "done"} /\ passes[p].perfType # "none"

\* C20: each execution that ran its loop challenged the first bot of its
\* own order that is eligible against the self entry of its own roster, or
\* nobody when there is none; _me is assigned only in the step that runs
\* the loop of the same execution, from that execution's roster.
C20_OwnSelf ==
    /\ [](\A p \in PassIds :
            Looped(p) =>
               LET c == passes[p]
                   hits == Eligible(FirstSelf(c.bots), c.bots, c.perfType,
                                    config)
               IN  /\ hits = {} => c.challenged = <<>>
                   /\ hits # {} =>
                         \E i \in hits :
                            /\ \A k \in hits : i <= k
                            /\ c.challenged = <<c.bots[i]>>)
    /\ [][ me' # me =>
             \E p \in PassIds :
                /\ passes[p].pc = "fetched"
                /\ Looped(p)'
                /\ me' = FirstSelf(passes[p].bots) ]_vars

\* C20 witness: both executions are suspended in create_challenge, their
\* rosters gave different self entries, and each challenged another bot.
C20_Witness ==
    /\ passes[1].pc = "challenging"
    /\ passes[2].pc = "challenging"
    /\ FirstSelf(passes[1].bots) # FirstSelf(passes[2].bots)
    /\ passes[1].challenged # passes[2].challenged
    /\ me = FirstSelf(passes[1].bots)

====
